---- MODULE Spec2Model ----
(***************************************************************************)
(* Model of execution/extract_icons.py: the icon-extraction pipeline       *)
(* (load, region filter, bounding-box merge, reading-order sort, crop and  *)
(* recolor) and its nested helper merge_boxes.                             *)
(*                                                                         *)
(* A bounding box is the tuple <<x, y, w, h>> of the source.  Python lists *)
(* are sequences; a 0-based Python index i is the 1-based index i + 1.     *)
(***************************************************************************)
EXTENDS Integers, Sequences, FiniteSets, TLC

VARIABLES
    input,        \* the file at input_path: whether it decodes, and its picture
    target_color, \* extract_icons: parameter `target_color`
    pc,           \* position of the running function
    dir_made,     \* whether output_dir exists
    img,          \* extract_icons: `img`, the loaded image's shape, or "None"
    soft_alpha,   \* extract_icons: `soft_alpha` (= `mask`), the cleaned mask
    contours,     \* extract_icons: cv2.boundingRect of each of `contours`
    bboxes,       \* extract_icons: the list `bboxes` (merge_boxes' argument)
    icon_i,       \* extract_icons: index `i` of the loop that writes the icons
    files,        \* the files written into output_dir, by name
    exit_code,    \* the process's exit status, -1 while it runs
    boxes,        \* merge_boxes: local `boxes`
    gap,          \* merge_boxes: parameter `gap`
    merged,       \* merge_boxes: local flag `merged`
    passes        \* merge_boxes: completed iterations of the while loop

pipeVars == <<input, target_color, dir_made, img, soft_alpha, contours, icon_i,
              files, exit_code>>

mergeVars == <<boxes, gap, merged, passes>>

vars == <<pc, bboxes, pipeVars, mergeVars>>

\* ------------------------------------------------------------------ bounds

\* Longest list of boxes handed to merge_boxes.
MaxBoxes == 3

\* Positions, sizes <<w, h>> and gap tolerances of the boxes handed to
\* merge_boxes.
MergeXs == 0 .. 2
MergeYs == 0 .. 1
MergeSizes == { <<1, 2>>, <<2, 1>> }
MergeGaps == 0 .. 1

MergeBoxSet ==
    { <<x, y, s[1], s[2]>> : x \in MergeXs, y \in MergeYs, s \in MergeSizes }

\* The boxes of the top row, for the runs checked for termination.
MergeBoxRow == { b \in MergeBoxSet : b[2] = 0 }

SeqsUpTo(S, n) == UNION { [1 .. k -> S] : k \in 0 .. n }

\* ------------------------------------------------------------- merge_boxes

Min(a, b) == IF a < b THEN a ELSE b
Max(a, b) == IF a > b THEN a ELSE b

\* Close with the left and top halves of the test left out.
CloseOneSided(m, b, g) ==
    /\ b[1] < m[1] + m[3] + g
    /\ b[2] < m[2] + m[4] + g

\* The merge test: box b is within gap g of the accumulated box m.
Close(m, b, g) ==
    /\ b[1] < m[1] + m[3] + g
    /\ b[1] + b[3] > m[1] - g
    /\ b[2] < m[2] + m[4] + g
    /\ b[2] + b[4] > m[2] - g

\* Merge taking the larger width and height instead of the joint extent.
MergeMaxSize(m, b) ==
    <<Min(m[1], b[1]), Min(m[2], b[2]), Max(m[3], b[3]), Max(m[4], b[4])>>

\* The accumulated box after merging b into m.
Merge(m, b) ==
    LET nx  == Min(m[1], b[1])
        ny  == Min(m[2], b[2])
        nmx == Max(m[1] + m[3], b[1] + b[3])
        nmy == Max(m[2] + m[4], b[2] + b[4])
    IN  <<nx, ny, nmx - nx, nmy - ny>>

\* InnerLoop that merges without setting the flag `merged`.
RECURSIVE InnerLoopNoFlag(_, _, _, _, _, _, _)
InnerLoopNoFlag(bs, i, j, m, used, mrg, g) ==
    IF j > Len(bs) THEN [m |-> m, used |-> used, merged |-> mrg]
    ELSE IF j <= i \/ j \in used THEN InnerLoopNoFlag(bs, i, j + 1, m, used, mrg, g)
    ELSE IF Close(m, bs[j], g)
         THEN InnerLoopNoFlag(bs, i, j + 1, Merge(m, bs[j]), used \cup {j}, mrg, g)
         ELSE InnerLoopNoFlag(bs, i, j + 1, m, used, mrg, g)

\* InnerLoop that sets the flag `merged` for every pair it tests.
RECURSIVE InnerLoopAlwaysFlag(_, _, _, _, _, _, _)
InnerLoopAlwaysFlag(bs, i, j, m, used, mrg, g) ==
    IF j > Len(bs) THEN [m |-> m, used |-> used, merged |-> mrg]
    ELSE IF j <= i \/ j \in used
         THEN InnerLoopAlwaysFlag(bs, i, j + 1, m, used, mrg, g)
    ELSE IF Close(m, bs[j], g)
         THEN InnerLoopAlwaysFlag(bs, i, j + 1, Merge(m, bs[j]), used \cup {j}, TRUE, g)
         ELSE InnerLoopAlwaysFlag(bs, i, j + 1, m, used, TRUE, g)

\* InnerLoop that marks a close box as used without growing the merged box.
RECURSIVE InnerLoopNoGrow(_, _, _, _, _, _, _)
InnerLoopNoGrow(bs, i, j, m, used, mrg, g) ==
    IF j > Len(bs) THEN [m |-> m, used |-> used, merged |-> mrg]
    ELSE IF j <= i \/ j \in used THEN InnerLoopNoGrow(bs, i, j + 1, m, used, mrg, g)
    ELSE IF Close(m, bs[j], g)
         THEN InnerLoopNoGrow(bs, i, j + 1, m, used \cup {j}, TRUE, g)
         ELSE InnerLoopNoGrow(bs, i, j + 1, m, used, mrg, g)

\* The inner for loop over j, from index j on, for the outer index i.
RECURSIVE InnerLoop(_, _, _, _, _, _, _)
InnerLoop(bs, i, j, m, used, mrg, g) ==
    IF j > Len(bs) THEN [m |-> m, used |-> used, merged |-> mrg]
    ELSE IF j <= i \/ j \in used THEN InnerLoop(bs, i, j + 1, m, used, mrg, g)
    ELSE IF Close(m, bs[j], g)
         THEN InnerLoop(bs, i, j + 1, Merge(m, bs[j]), used \cup {j}, TRUE, g)
         ELSE InnerLoop(bs, i, j + 1, m, used, mrg, g)

\* OuterLoop that resets the flag `merged` for every i.
RECURSIVE OuterLoopResetFlag(_, _, _, _, _, _)
OuterLoopResetFlag(bs, i, new_boxes, used, mrg, g) ==
    IF i > Len(bs) THEN [new_boxes |-> new_boxes, merged |-> mrg]
    ELSE IF i \in used THEN OuterLoopResetFlag(bs, i + 1, new_boxes, used, mrg, g)
    ELSE LET r == InnerLoop(bs, i, 1, bs[i], used, FALSE, g)
         IN  OuterLoopResetFlag(bs, i + 1, Append(new_boxes, r.m),
                                r.used \cup {i}, r.merged, g)

\* The outer for loop over i, from index i on.
RECURSIVE OuterLoop(_, _, _, _, _, _)
OuterLoop(bs, i, new_boxes, used, mrg, g) ==
    IF i > Len(bs) THEN [new_boxes |-> new_boxes, merged |-> mrg]
    ELSE IF i \in used THEN OuterLoop(bs, i + 1, new_boxes, used, mrg, g)
    ELSE LET r == InnerLoop(bs, i, 1, bs[i], used, mrg, g)
         IN  OuterLoop(bs, i + 1, Append(new_boxes, r.m), r.used \cup {i},
                       r.merged, g)

\* One iteration of the while loop: merged = False, the scan, boxes = new_boxes.
MergePass(bs, g) == OuterLoop(bs, 1, <<>>, {}, FALSE, g)

\* The while loop, entered with merged = True.
RECURSIVE WhileMerged(_, _)
WhileMerged(bs, g) ==
    LET r == MergePass(bs, g)
    IN  IF r.merged THEN WhileMerged(r.new_boxes, g) ELSE r.new_boxes

\* merge_boxes(boxes, gap) as a function of its arguments.
MergeBoxes(bs, g) == IF bs = <<>> THEN bs ELSE WhileMerged(bs, g)

\* merge_boxes, a step at a time: the call, each pass of the while loop, the
\* return.
MergeBegin ==
    /\ pc = "merge_call"
    /\ boxes' = bboxes
    /\ IF bboxes = <<>>
       THEN pc' = "merge_ret" /\ merged' = merged
       ELSE pc' = "merge_loop" /\ merged' = TRUE
    /\ UNCHANGED <<bboxes, gap, passes, pipeVars>>

MergePassStep ==
    /\ pc = "merge_loop"
    /\ merged
    /\ LET r == MergePass(boxes, gap)
       IN  /\ boxes' = r.new_boxes
           /\ merged' = r.merged
    /\ passes' = passes + 1
    /\ UNCHANGED <<pc, bboxes, gap, pipeVars>>

MergeReturn ==
    /\ pc = "merge_loop"
    /\ ~merged
    /\ pc' = "merge_ret"
    /\ UNCHANGED <<bboxes, boxes, gap, merged, passes, pipeVars>>

\* extract_icons is not running: merge_boxes is called on its own.
PipeIdle ==
    /\ input = [readable |-> FALSE, W |-> 0, H |-> 0, shapes |-> <<>>]
    /\ target_color = <<0, 0, 0>>
    /\ dir_made = FALSE
    /\ img = "None"
    /\ soft_alpha = "None"
    /\ contours = <<>>
    /\ icon_i = 0
    /\ files = <<>>
    /\ exit_code = -1

\* merge_boxes is not running.
MergeIdle ==
    /\ boxes = <<>>
    /\ gap = 0
    /\ merged = FALSE
    /\ passes = 0

InitMergeOver(S) ==
    /\ pc = "merge_call"
    /\ PipeIdle
    /\ bboxes \in SeqsUpTo(S, MaxBoxes)
    /\ gap \in MergeGaps
    /\ boxes = <<>>
    /\ merged = FALSE
    /\ passes = 0

InitMerge == InitMergeOver(MergeBoxSet)

InitMergeRow == InitMergeOver(MergeBoxRow)

NextMerge == MergeBegin \/ MergePassStep \/ MergeReturn

SpecMerge == InitMerge /\ [][NextMerge]_vars

\* merge_boxes runs to its end once called: nothing suspends it.
SpecMergeFair == InitMergeRow /\ [][NextMerge]_vars /\ WF_vars(NextMerge)

\* ---------------------------------------------------------------- geometry

\* Box b with every side moved outwards by g.
Expand(b, g) == <<b[1] - g, b[2] - g, b[3] + 2 * g, b[4] + 2 * g>>

\* Rectangles a and b share a pixel.
Intersects(a, b) ==
    /\ a[1] < b[1] + b[3]
    /\ b[1] < a[1] + a[3]
    /\ a[2] < b[2] + b[4]
    /\ b[2] < a[2] + a[4]

\* ----------------------------------------------------------- extract_icons

\* Program constants.
min_area == 500
MinHeight == 80
MergeGap == 40
BandHeight == 80
padding == 15

icon_names ==
    << "tension-relief", "stress-relief", "cellular-homeostasis",
       "deep-meditation", "performance-recovery", "elevated-mood" >>

\* Fractions <<numerator, denominator>> with positive denominators stand for
\* the floats of the aspect test.  a / b < c / d is a * d < c * b; for pixel
\* sizes the rounding of w / h and of the literals 0.4 and 2.5 never changes
\* the outcome of a comparison (2/5 is the only ratio that rounds to the
\* float 0.4, and 2.5 is exact).
RatLess(p, q) == p[1] * q[2] < q[1] * p[2]

\* Keep with the upper aspect bound included.
KeepInclusive(b) ==
    LET w == b[3]
        h == b[4]
        area == w * h
        aspect == <<w, Max(h, 1)>>
    IN  /\ area > min_area
        /\ RatLess(<<2, 5>>, aspect)
        /\ ~RatLess(<<5, 2>>, aspect)
        /\ h > MinHeight

\* The filter's condition on one bounding rectangle <<x, y, w, h>>.
Keep(b) ==
    LET w == b[3]
        h == b[4]
        area == w * h
        aspect == <<w, Max(h, 1)>>
    IN  /\ area > min_area
        /\ RatLess(<<2, 5>>, aspect)
        /\ RatLess(aspect, <<5, 2>>)
        /\ h > MinHeight

\* SortKey without the division into bands.
SortKeyByY(b) == <<b[2], b[1]>>

\* SortKey with x before the band.
SortKeyXFirst(b) == <<b[1], b[2] \div BandHeight>>

\* The sort key of a box: lambda b: (b[1] // 80, b[0]).
SortKey(b) == <<b[2] \div BandHeight, b[1]>>

\* Python's order on pairs.
KeyLess(k, l) == k[1] < l[1] \/ (k[1] = l[1] /\ k[2] < l[2])

\* b put into the sorted list s, after the boxes whose key is not greater.
RECURSIVE InsertSorted(_, _)
InsertSorted(s, b) ==
    IF s = <<>> THEN <<b>>
    ELSE IF KeyLess(SortKey(b), SortKey(Head(s))) THEN <<b>> \o s
    ELSE <<Head(s)>> \o InsertSorted(Tail(s), b)

\* list.sort(key=...): ascending and stable.
RECURSIVE SortFrom(_, _, _)
SortFrom(s, k, acc) ==
    IF k > Len(s) THEN acc ELSE SortFrom(s, k + 1, InsertSorted(acc, s[k]))

SortBoxes(s) == SortFrom(s, 1, <<>>)

\* The loop over the contours: the rectangles that pass the filter, in order.
FilterStage ==
    /\ pc = "filter"
    /\ bboxes' = SelectSeq(contours, Keep)
    /\ pc' = "merge"
    /\ UNCHANGED <<pipeVars, mergeVars>>

\* bboxes = merge_boxes(bboxes, gap=40)
MergeStage ==
    /\ pc = "merge"
    /\ bboxes' = MergeBoxes(bboxes, MergeGap)
    /\ pc' = "sort"
    /\ UNCHANGED <<pipeVars, mergeVars>>

\* bboxes.sort(key=lambda b: (b[1] // 80, b[0]))
SortStage ==
    /\ pc = "sort"
    /\ bboxes' = SortBoxes(bboxes)
    /\ pc' = "emit"
    /\ UNCHANGED <<pipeVars, mergeVars>>

\* The cleaned mask is held as the image size and the list of its foreground
\* shapes, in the order cv2.findContours reports them; a shape is a rectangle
\* [x, y, w, h], filled (solid) or an outline three pixels thick.  The shapes
\* of one mask lie inside the image and do not touch, so that each is one
\* external contour and cv2.boundingRect gives its rectangle.
ShapeAt(sh, px, py) ==
    /\ sh.x <= px /\ px < sh.x + sh.w
    /\ sh.y <= py /\ py < sh.y + sh.h
    /\ \/ sh.solid
       \/ px < sh.x + 3 \/ px >= sh.x + sh.w - 3
       \/ py < sh.y + 3 \/ py >= sh.y + sh.h - 3

\* The value of mask[py, px]: 255 on a shape, 0 elsewhere.
MaskAt(mask, px, py) ==
    IF \E k \in DOMAIN mask.shapes : ShapeAt(mask.shapes[k], px, py)
    THEN 255 ELSE 0

ShapeRect(sh) == <<sh.x, sh.y, sh.w, sh.h>>

\* A slice bound v of a Python slice over an axis of length n.
SliceBound(v, n) == IF v < 0 THEN Max(v + n, 0) ELSE Min(v, n)

\* soft_alpha[y1:y2, x1:x2]: the array of the rows and columns the slices
\* select, with its shape.
Crop(mask, y1, y2, x1, x2) ==
    LET r0 == SliceBound(y1, mask.H)
        r1 == SliceBound(y2, mask.H)
        c0 == SliceBound(x1, mask.W)
        c1 == SliceBound(x2, mask.W)
        nrows == Max(r1 - r0, 0)
        ncols == Max(c1 - c0, 0)
    IN  [height |-> nrows, width |-> ncols,
         px |-> [r \in 0 .. nrows - 1 |->
                    [c \in 0 .. ncols - 1 |-> MaskAt(mask, c0 + c, r0 + r)]]]

\* CropRect without the clamping to the image.
CropRectNoClamp(b, shape) ==
    [x1 |-> b[1] - padding, y1 |-> b[2] - padding,
     x2 |-> b[1] + b[3] + padding, y2 |-> b[2] + b[4] + padding]

\* The padded rectangle of box b in an image of the given shape.
CropRect(b, shape) ==
    [x1 |-> Max(0, b[1] - padding),
     y1 |-> Max(0, b[2] - padding),
     x2 |-> Min(shape.W, b[1] + b[3] + padding),
     y2 |-> Min(shape.H, b[2] + b[4] + padding)]

\* The RGBA array: the target color everywhere, the alpha of icon_alpha.
Rgba(icon_alpha, color) ==
    [height |-> icon_alpha.height, width |-> icon_alpha.width,
     px |-> [r \in 0 .. icon_alpha.height - 1 |->
                [c \in 0 .. icon_alpha.width - 1 |->
                    <<color[1], color[2], color[3], icon_alpha.px[r][c]>>]]]

\* The file name (without .png) of the icon of index i, counted from 0.
IconName(i) ==
    IF i < Len(icon_names) THEN icon_names[i + 1] ELSE <<"icon", i + 1>>

\* os.makedirs(output_dir, exist_ok=True)
MakeDirs ==
    /\ pc = "start"
    /\ dir_made' = TRUE
    /\ pc' = "load"
    /\ UNCHANGED <<input, target_color, img, soft_alpha, contours, icon_i,
                   files, exit_code, bboxes, mergeVars>>

\* LoadImage leaving with status 0 when the image cannot be loaded.
LoadImageExitZero ==
    /\ pc = "load"
    /\ IF input.readable
       THEN /\ img' = [W |-> input.W, H |-> input.H]
            /\ pc' = "segment"
            /\ exit_code' = exit_code
       ELSE /\ img' = "None"
            /\ pc' = "exit"
            /\ exit_code' = 0
    /\ UNCHANGED <<input, target_color, dir_made, soft_alpha, contours, icon_i,
                   files, bboxes, mergeVars>>

\* img = cv2.imread(input_path); sys.exit(1) if it is None.
LoadImage ==
    /\ pc = "load"
    /\ IF input.readable
       THEN /\ img' = [W |-> input.W, H |-> input.H]
            /\ pc' = "segment"
            /\ exit_code' = exit_code
       ELSE /\ img' = "None"
            /\ pc' = "exit"
            /\ exit_code' = 1
    /\ UNCHANGED <<input, target_color, dir_made, soft_alpha, contours, icon_i,
                   files, bboxes, mergeVars>>

\* Threshold, morphology, findContours: the cleaned mask of the picture and
\* the bounding rectangles of its external contours.
Segment ==
    /\ pc = "segment"
    /\ soft_alpha' = [W |-> img.W, H |-> img.H, shapes |-> input.shapes]
    /\ contours' = [k \in DOMAIN input.shapes |-> ShapeRect(input.shapes[k])]
    /\ pc' = "filter"
    /\ UNCHANGED <<input, target_color, dir_made, img, icon_i, files,
                   exit_code, bboxes, mergeVars>>

\* One iteration of the loop that crops, recolors and saves the icons.
EmitIcon ==
    /\ pc = "emit"
    /\ icon_i < Len(bboxes)
    /\ LET b == bboxes[icon_i + 1]
           c == CropRect(b, img)
           icon_alpha == Crop(soft_alpha, c.y1, c.y2, c.x1, c.x2)
           rgba == Rgba(icon_alpha, target_color)
           name == IconName(icon_i)
       IN  files' = [n \in DOMAIN files \cup {name} |->
                        IF n = name THEN rgba ELSE files[n]]
    /\ icon_i' = icon_i + 1
    /\ UNCHANGED <<input, target_color, pc, dir_made, img, soft_alpha,
                   contours, exit_code, bboxes, mergeVars>>

\* The loop is over: the function returns and the script ends.
Finish ==
    /\ pc = "emit"
    /\ icon_i = Len(bboxes)
    /\ pc' = "done"
    /\ exit_code' = 0
    /\ UNCHANGED <<input, target_color, dir_made, img, soft_alpha, contours,
                   icon_i, files, bboxes, mergeVars>>

\* The pictures extract_icons is run on.
MaxShapes == 2

\* Shapes that can appear in a picture of 200 x 200 pixels.
Palette ==
    { [x |-> 0,   y |-> 0,   w |-> 33,  h |-> 81,  solid |-> FALSE],
      [x |-> 60,  y |-> 5,   w |-> 40,  h |-> 90,  solid |-> TRUE],
      [x |-> 150, y |-> 100, w |-> 50,  h |-> 100, solid |-> FALSE],
      [x |-> 20,  y |-> 150, w |-> 100, h |-> 40,  solid |-> TRUE],
      [x |-> 110, y |-> 10,  w |-> 34,  h |-> 85,  solid |-> FALSE] }

\* Shapes a and b neither overlap nor touch.
Apart(a, b) == ~Intersects(Expand(ShapeRect(a), 1), ShapeRect(b))

SmallPictures ==
    { [readable |-> rd, W |-> 200, H |-> 200, shapes |-> sh] :
        rd \in BOOLEAN,
        sh \in { q \in SeqsUpTo(Palette, MaxShapes) :
                    \A i, j \in DOMAIN q : i /= j => Apart(q[i], q[j]) } }

\* Six filled squares of side s in two rows of three, d pixels apart, with a
\* margin of o pixels around them, listed in the order ord.
GridSides == { 80, 81, 90 }
GridMargins == { 0, 25 }
GridGaps == { 40 }
GridOrders == { <<1, 2, 3, 4, 5, 6>>, <<6, 5, 4, 3, 2, 1>>, <<4, 2, 6, 1, 5, 3>> }

GridShape(s, d, o, k) ==
    [x |-> o + ((k - 1) % 3) * (s + d), y |-> o + ((k - 1) \div 3) * (s + d),
     w |-> s, h |-> s, solid |-> TRUE]

GridPictures ==
    { [readable |-> TRUE, W |-> 2 * o + 3 * s + 2 * d, H |-> 2 * o + 2 * s + d,
       shapes |-> [k \in 1 .. 6 |-> GridShape(s, d, o, ord[k])]] :
        s \in GridSides, d \in GridGaps, o \in GridMargins, ord \in GridOrders }

Colors == { <<13, 148, 136>>, <<255, 0, 64>> }

Init ==
    /\ pc = "start"
    /\ input \in SmallPictures \cup GridPictures
    /\ target_color \in Colors
    /\ dir_made = FALSE
    /\ img = "None"
    /\ soft_alpha = "None"
    /\ contours = <<>>
    /\ bboxes = <<>>
    /\ icon_i = 0
    /\ files = <<>>
    /\ exit_code = -1
    /\ MergeIdle

Next ==
    \/ MakeDirs
    \/ LoadImage
    \/ Segment
    \/ FilterStage
    \/ MergeStage
    \/ SortStage
    \/ EmitIcon
    \/ Finish

Spec == Init /\ [][Next]_vars

\* The filter on its own, over lists of contour rectangles.
MaxContours == 2
FilterWs == { 20, 33, 34, 35, 60, 100, 204, 205 }
FilterHs == { 40, 80, 81, 82, 85, 100 }
FilterRects == { <<0, 0, w, h>> : w \in FilterWs, h \in FilterHs }

InitFilter ==
    /\ pc = "filter"
    /\ input = [readable |-> FALSE, W |-> 0, H |-> 0, shapes |-> <<>>]
    /\ target_color = <<0, 0, 0>>
    /\ dir_made = FALSE
    /\ img = "None"
    /\ soft_alpha = "None"
    /\ contours \in SeqsUpTo(FilterRects, MaxContours)
    /\ icon_i = 0
    /\ files = <<>>
    /\ exit_code = -1
    /\ bboxes = <<>>
    /\ MergeIdle

NextFilter == FilterStage

SpecFilter == InitFilter /\ [][NextFilter]_vars

\* The sort on its own, over lists of boxes.
MaxSorted == 3
SortXs == { 5, 10, 50 }
SortYs == { 10, 15, 79, 90, 160 }
SortBoxSet == { <<x, y, 1, 1>> : x \in SortXs, y \in SortYs }

InitSort ==
    /\ pc = "sort"
    /\ PipeIdle
    /\ bboxes \in SeqsUpTo(SortBoxSet, MaxSorted)
    /\ MergeIdle

NextSort == SortStage

SpecSort == InitSort /\ [][NextSort]_vars

\* --------------------------------------------------- claims on merge_boxes

Range(s) == { s[i] : i \in DOMAIN s }

\* Every reordering of the list s.
Reorderings(s) ==
    { [i \in 1 .. Len(s) |-> s[f[i]]] : f \in Permutations(1 .. Len(s)) }

\* Rectangle r contains rectangle b.
Contains(r, b) ==
    /\ r[1] <= b[1]
    /\ r[2] <= b[2]
    /\ b[1] + b[3] <= r[1] + r[3]
    /\ b[2] + b[4] <= r[2] + r[4]

\* r is the minimal axis-aligned rectangle containing every box of the set S:
\* it contains them all and each of its sides lies on a side of one of them.
IsBoundingRect(r, S) ==
    /\ \A b \in S : Contains(r, b)
    /\ \E b \in S : r[1] = b[1]
    /\ \E b \in S : r[2] = b[2]
    /\ \E b \in S : r[1] + r[3] = b[1] + b[3]
    /\ \E b \in S : r[2] + r[4] = b[2] + b[4]

Returned == pc = "merge_ret"

\* C1 as stated: two boxes whose rectangles, EACH expanded by gap, intersect
\* come back as one box, their minimal bounding rectangle.
C1_BothExpanded ==
    (/\ Returned
     /\ Len(bboxes) = 2
     /\ Intersects(Expand(bboxes[1], gap), Expand(bboxes[2], gap)))
    => /\ Len(boxes) = 1
       /\ IsBoundingRect(boxes[1], Range(bboxes))

\* C1 as amended: two boxes of which ONE, expanded by gap on all four sides,
\* intersects the other (unexpanded) box come back as exactly one box, the
\* minimal bounding rectangle of the two.
C1_OneExpanded ==
    (/\ Returned
     /\ Len(bboxes) = 2
     /\ \/ Intersects(Expand(bboxes[1], gap), bboxes[2])
        \/ Intersects(Expand(bboxes[2], gap), bboxes[1]))
    => /\ Len(boxes) = 1
       /\ IsBoundingRect(boxes[1], Range(bboxes))

\* Two disjoint boxes, within gap of each other, have been merged into one.
C1_Witness ==
    /\ Returned
    /\ Len(bboxes) = 2
    /\ gap > 0
    /\ ~Intersects(bboxes[1], bboxes[2])
    /\ Intersects(Expand(bboxes[1], gap), bboxes[2])
    /\ Len(boxes) = 1

\* C2: in the returned list no two boxes at different positions overlap, and
\* none is within the gap tolerance of another (one of them expanded by gap
\* meets the other, which is the loop's merge test).
C2_NoPairLeft ==
    Returned =>
        \A i, j \in DOMAIN boxes :
            i /= j => /\ ~Intersects(boxes[i], boxes[j])
                      /\ ~Intersects(Expand(boxes[i], gap), boxes[j])
                      /\ ~Close(boxes[i], boxes[j], gap)

\* Merging took place and left several boxes, pairwise apart.
C2_Witness ==
    /\ Returned
    /\ Len(boxes) >= 2
    /\ Len(boxes) < Len(bboxes)

\* C3: every reordering of the argument list gives the same set of boxes.
C3_OrderIndependent ==
    Returned =>
        \A p \in Reorderings(bboxes) :
            Range(MergeBoxes(p, gap)) = Range(boxes)

\* Three boxes of which some order needs a second merging pass and another
\* order does not: the passes differ, the results agree.
C3_Witness ==
    /\ Returned
    /\ Len(bboxes) = 3
    /\ Len(boxes) = 1
    /\ passes = 3
    /\ \E p \in Reorderings(bboxes) : ~MergePass(MergePass(p, gap).new_boxes, gap).merged

\* C4: merge_boxes applied to its own result returns it unchanged.
C4_Idempotent == Returned => MergeBoxes(boxes, gap) = boxes

\* A result of two boxes or more obtained after at least one merge.
C4_Witness ==
    /\ Returned
    /\ passes >= 2
    /\ Len(boxes) >= 2
    /\ MergeBoxes(boxes, gap) = boxes

\* C10: merge_boxes returns; a pass that merges shortens the list and a pass
\* that does not leaves it as it is; there are at most n passes for n boxes;
\* the result is no longer than the argument and empty only if it is.
C10_PassShrinks ==
    (pc = "merge_loop" /\ pc' = "merge_loop") =>
        /\ passes' = passes + 1
        /\ IF merged' THEN Len(boxes') < Len(boxes) ELSE boxes' = boxes
        /\ passes' <= Len(bboxes')
        /\ Len(boxes') <= Len(bboxes')
        /\ boxes' /= <<>>

C10_Terminates ==
    /\ <>Returned
    /\ [][C10_PassShrinks]_vars
    /\ [](Returned => /\ passes <= Len(bboxes)
                      /\ Len(boxes) <= Len(bboxes)
                      /\ (bboxes /= <<>> => boxes /= <<>>))

\* Three boxes needed all three passes: two that merge and the last that
\* does not.
C10_Witness ==
    /\ Returned
    /\ Len(bboxes) = 3
    /\ passes = Len(bboxes)
    /\ ~merged

\* ------------------------------------------------- claims on extract_icons

\* The three conditions of the region filter, as the specification gives them.
C6_Passes(b) ==
    /\ b[3] * b[4] > 500
    /\ 5 * b[3] > 2 * b[4]
    /\ 2 * b[3] < 5 * b[4]
    /\ b[4] > 80

\* C6: the boxes handed to the merger are exactly the contour rectangles with
\* w*h > 500, 0.4 < w/h < 2.5 and h > 80, in contour order; 100x40 is
\* rejected and 60x100 is accepted.
C6_FilterExact ==
    pc = "merge" =>
        /\ bboxes = SelectSeq(contours, C6_Passes)
        /\ \A b \in Range(bboxes) : C6_Passes(b)
        /\ \A b \in Range(contours) :
              /\ (b[3] = 100 /\ b[4] = 40) => b \notin Range(bboxes)
              /\ (b[3] = 60 /\ b[4] = 100) => b \in Range(bboxes)

\* The filter has seen a 100x40 box and a 60x100 box and kept the second.
C6_Witness ==
    /\ pc = "merge"
    /\ \E b \in Range(contours) : b[3] = 100 /\ b[4] = 40
    /\ \E b \in Range(contours) : b[3] = 60 /\ b[4] = 100
    /\ Len(bboxes) = 1

\* How often b occurs in the list s.
Count(s, b) == Cardinality({ i \in DOMAIN s : s[i] = b })

\* The positions <<x, y>> of the boxes of s.
Positions(s) == [i \in DOMAIN s |-> <<s[i][1], s[i][2]>>]

C7_Ordered(s) ==
    \A i, j \in DOMAIN s :
        i < j => \/ s[i][2] \div 80 < s[j][2] \div 80
                 \/ (s[i][2] \div 80 = s[j][2] \div 80 /\ s[i][1] <= s[j][1])

C7_SortStep ==
    (pc = "sort" /\ pc' = "emit") =>
        /\ C7_Ordered(bboxes')
        /\ \A b \in Range(bboxes) \cup Range(bboxes') :
              Count(bboxes', b) = Count(bboxes, b)
        /\ Positions(bboxes) = << <<50, 10>>, <<10, 90>>, <<5, 15>> >>
              => Positions(bboxes') = << <<5, 15>>, <<50, 10>>, <<10, 90>> >>

\* C7: the sort leaves the boxes in ascending order of (y // 80, x), with the
\* same boxes as before, each as often; A(50,10), B(10,90), C(5,15) come out
\* as C, A, B.
C7_ReadingOrder ==
    /\ [][C7_SortStep]_vars
    /\ [](pc = "emit" => C7_Ordered(bboxes))

\* The sort has turned A, B, C into C, A, B.
C7_Witness ==
    /\ pc = "emit"
    /\ Positions(bboxes) = << <<5, 15>>, <<50, 10>>, <<10, 90>> >>

\* The crop the specification gives for box b in an image of W x H pixels.
C8_Crop(b, W, H) ==
    [x1 |-> IF b[1] - 15 > 0 THEN b[1] - 15 ELSE 0,
     y1 |-> IF b[2] - 15 > 0 THEN b[2] - 15 ELSE 0,
     x2 |-> IF b[1] + b[3] + 15 < W THEN b[1] + b[3] + 15 ELSE W,
     y2 |-> IF b[2] + b[4] + 15 < H THEN b[2] + b[4] + 15 ELSE H]

\* The file of the icon of index k (from 0) is the crop of its box.
C8_IconRight(k) ==
    LET b == bboxes[k + 1]
        c == C8_Crop(b, img.W, img.H)
    IN  /\ IconName(k) \in DOMAIN files
        /\ 0 <= c.x1 /\ c.x1 <= b[1] /\ b[1] + b[3] <= c.x2 /\ c.x2 <= img.W
        /\ 0 <= c.y1 /\ c.y1 <= b[2] /\ b[2] + b[4] <= c.y2 /\ c.y2 <= img.H
        /\ c.x1 < c.x2 /\ c.y1 < c.y2
        /\ LET f == files[IconName(k)]
           IN  /\ f.width = c.x2 - c.x1
               /\ f.height = c.y2 - c.y1
               /\ DOMAIN f.px = 0 .. f.height - 1
               /\ \A r \in DOMAIN f.px :
                     /\ DOMAIN f.px[r] = 0 .. f.width - 1
                     /\ \A q \in DOMAIN f.px[r] :
                           /\ f.px[r][q][1] = target_color[1]
                           /\ f.px[r][q][2] = target_color[2]
                           /\ f.px[r][q][3] = target_color[3]
                           /\ f.px[r][q][4] = MaskAt(soft_alpha, c.x1 + q, c.y1 + r)
                           /\ f.px[r][q][4] \in {0, 255}

C9_LoadFailureAborts ==
    /\ (~input.readable /\ pc \notin {"start", "load"}) =>
          /\ pc = "exit"
          /\ exit_code = 1
          /\ dir_made
          /\ files = <<>>
          /\ soft_alpha = "None"
          /\ contours = <<>>
          /\ bboxes = <<>>
          /\ icon_i = 0
          /\ ~ENABLED Next
    /\ exit_code = 1 => ~input.readable

\* A run on an unreadable picture of several shapes has ended.
C9_Witness ==
    /\ pc = "exit"
    /\ exit_code = 1
    /\ dir_made
    /\ Len(input.shapes) >= 2

\* The shapes sh are six filled squares of side minSide or more, any two of
\* them 40 pixels or more apart, three at each of two heights y.
C5_IsGrid(sh, minSide) ==
    /\ Len(sh) = 6
    /\ \A k \in DOMAIN sh :
          /\ sh[k].solid
          /\ sh[k].w = sh[k].h
          /\ sh[k].w >= minSide
          /\ Cardinality({ j \in DOMAIN sh : sh[j].y = sh[k].y }) = 3
    /\ \A j, k \in DOMAIN sh :
          j /= k => ~Intersects(Expand(ShapeRect(sh[j]), 40), ShapeRect(sh[k]))

\* The place (from 1) of shape k of sh in row-major order.
C5_Place(sh, k) ==
    1 + Cardinality({ j \in DOMAIN sh :
                        \/ sh[j].y < sh[k].y
                        \/ (sh[j].y = sh[k].y /\ sh[j].x < sh[k].x) })

\* Exactly the six named files exist, and the file of each name is the icon
\* of the square at that place in row-major order.
C5_SixNamed(sh) ==
    /\ DOMAIN files = Range(icon_names)
    /\ Cardinality(DOMAIN files) = 6
    /\ Len(bboxes) = 6
    /\ \A k \in DOMAIN sh :
          LET n == C5_Place(sh, k)
              c == C8_Crop(ShapeRect(sh[k]), img.W, img.H)
          IN  /\ bboxes[n] = ShapeRect(sh[k])
              /\ files[icon_names[n]].width = c.x2 - c.x1
              /\ files[icon_names[n]].height = c.y2 - c.y1
              /\ files[icon_names[n]].px[sh[k].y - c.y1][sh[k].x - c.x1][4] = 255

\* C5 as stated: squares of side 80 or more.
C5_SideAtLeast80 ==
    (pc = "done" /\ C5_IsGrid(input.shapes, 80)) => C5_SixNamed(input.shapes)

\* C5 as amended: squares of side 81 or more (the filter wants h > 80), 40
\* pixels or more apart, the three of a row at the same y, come out as the
\* six named files in row-major order.
C5_SideAbove80 ==
    (pc = "done" /\ C5_IsGrid(input.shapes, 81)) => C5_SixNamed(input.shapes)

\* A grid whose contours were not reported in row-major order has been
\* written as six files.
C5_Witness ==
    /\ pc = "done"
    /\ C5_IsGrid(input.shapes, 81)
    /\ \E k \in DOMAIN input.shapes : C5_Place(input.shapes, k) /= k
    /\ Cardinality(DOMAIN files) = 6

\* --------------------------------------------- coverage of the merged boxes

\* A pass of the while loop has ended (or merge_boxes has returned).
C11_PassEnded == (pc = "merge_loop" /\ passes >= 1) \/ Returned

\* The positions of the current boxes that contain the argument box b.
C11_Holders(b) == { k \in DOMAIN boxes : Contains(boxes[k], b) }

\* The argument boxes the current box of position k contains.
C11_Held(k) == { b \in Range(bboxes) : Contains(boxes[k], b) }

\* Every current box is the minimal bounding rectangle of the argument boxes
\* it contains.
C11_BoxesAreBounds ==
    \A k \in DOMAIN boxes : IsBoundingRect(boxes[k], C11_Held(k))

\* Three argument boxes in a chain (the first within gap of the second, the
\* second of the third, the first not of the third) come back as one box
\* around all three.
C11_Chain ==
    (Returned /\ Len(bboxes) = 3) =>
        \A a, b, c \in DOMAIN bboxes :
            (/\ {a, b, c} = DOMAIN bboxes
             /\ Close(bboxes[a], bboxes[b], gap)
             /\ Close(bboxes[b], bboxes[c], gap)
             /\ ~Close(bboxes[a], bboxes[c], gap))
            => /\ Len(boxes) = 1
               /\ IsBoundingRect(boxes[1], Range(bboxes))

\* C11 as stated: at the end of EVERY pass each argument box is contained in
\* exactly one current box, and every current box is the minimal bounding
\* rectangle of the argument boxes it contains.
C11_ExactlyOneEveryPass ==
    C11_PassEnded =>
        /\ \A b \in Range(bboxes) : Cardinality(C11_Holders(b)) = 1
        /\ C11_BoxesAreBounds

\* C11 as amended: at the end of every pass each argument box is contained
\* in AT LEAST one current box and every current box is the minimal bounding
\* rectangle of the argument boxes it contains; in the returned list each
\* argument box is contained in exactly one box; a chain A-B-C comes back as
\* one box around all three.
C11_Coverage ==
    /\ C11_PassEnded =>
          /\ \A b \in Range(bboxes) : C11_Holders(b) /= {}
          /\ C11_BoxesAreBounds
    /\ Returned => \A b \in Range(bboxes) : Cardinality(C11_Holders(b)) = 1
    /\ C11_Chain

\* A chain of three boxes, the first and the third not within gap of each
\* other, has come back as one box.
C11_Witness ==
    /\ Returned
    /\ Len(bboxes) = 3
    /\ Close(bboxes[1], bboxes[3], gap)
    /\ Close(bboxes[3], bboxes[2], gap)
    /\ ~Close(bboxes[1], bboxes[2], gap)
    /\ Len(boxes) = 1
    /\ passes = 3

====
